---- MODULE Spec2Model ----
(***************************************************************************)
(* Issuer registry (djscruggs/cardlessid).                                  *)
(*                                                                         *)
(* The registry is an Algorand application: two globals (admin,            *)
(* issuer_count) and a box store mapping byte-string keys to byte-string   *)
(* values.  Every application call is one atomic step: the approval        *)
(* program either approves (its writes are kept) or rejects/panics (no     *)
(* write is kept).  Byte strings are sequences of numbers 0..255.          *)
(*                                                                         *)
(*   Spec        the PyTeal registry   (app/contracts/issuer-registry.py)  *)
(*   SpecBeaker  the Beaker registry   (app/contracts/issuer-registry-     *)
(*               beaker.py, and the line-for-line identical class in       *)
(*               algokit-project/smart_contracts/issuer_registry)          *)
(*   SpecAny     either of the two                                         *)
(*   SpecAlias   the PyTeal registry called with issuer_address arguments  *)
(*               that are not 32-byte addresses                            *)
(*   SpecAlgopy  the algopy registry   (issuer_registry/contract.py)       *)
(***************************************************************************)
EXTENDS Integers, Sequences, FiniteSets, TLC

VARIABLES program, admin, issuer_count, boxes, now, txn, approved, logged, prev, calls

vars == <<program, admin, issuer_count, boxes, now, txn, approved, logged, prev, calls>>

(***************************************************************************)
(* Bounds of the model.                                                    *)
(***************************************************************************)
\* the host clock (Global.latest_timestamp) ranges over 1..MaxTime
MaxTime == 2

\* at most MaxCalls application calls are submitted to the PyTeal registry
MaxCalls == 3

\* at most MaxBeakerCalls application calls are submitted to the Beaker registry
MaxBeakerCalls == 3

(***************************************************************************)
(* AVM byte-string primitives.                                             *)
(***************************************************************************)
\* Itob: 8-byte big-endian encoding (the model's numbers are below 2^24)
Itob(n) == [i \in 1..8 |-> IF i <= 5 THEN 0 ELSE (n \div (256 ^ (8 - i))) % 256]

RECURSIVE BtoiAcc(_, _)
BtoiAcc(b, acc) == IF b = <<>> THEN acc ELSE BtoiAcc(Tail(b), acc * 256 + Head(b))

\* Btoi panics on more than 8 bytes
BtoiOk(b) == Len(b) <= 8

Btoi(b) == BtoiAcc(b, 0)

\* Extract(b, s, l) panics when s + l exceeds the length
ExtractOk(b, s, l) == s + l <= Len(b)

Extract(b, s, l) == SubSeq(b, s + 1, s + l)

\* Substring(b, s, e) panics when e exceeds the length or s > e
SubstringOk(b, s, e) == s <= e /\ e <= Len(b)

Substring(b, s, e) == SubSeq(b, s + 1, e)

\* App.box_get(key).hasValue()
box_has(bx, key) == key \in DOMAIN bx

\* App.box_put panics on a box name outside 1..64 bytes, and on an existing
\* box of another size
box_put_ok(bx, key, value) ==
    /\ Len(key) >= 1
    /\ Len(key) <= 64
    /\ box_has(bx, key) => Len(bx[key]) = Len(value)

box_put(bx, key, value) == [k \in DOMAIN bx \cup {key} |-> IF k = key THEN value ELSE bx[k]]

(***************************************************************************)
(* Byte-string literals of the programs.                                   *)
(***************************************************************************)
\* Bytes("meta:")
MetaPrefix == <<109, 101, 116, 97, 58>>

\* Bytes("cred:")
CredPrefix == <<99, 114, 101, 100, 58>>

\* Bytes("http://")
HttpPrefix == <<104, 116, 116, 112, 58, 47, 47>>

\* Bytes("https://")
HttpsPrefix == <<104, 116, 116, 112, 115, 58, 47, 47>>

(***************************************************************************)
(* Inputs of the calls.                                                    *)
(***************************************************************************)
\* a 32-byte account address
Address(n) == [i \in 1..32 |-> IF i = 32 THEN n ELSE 0]

Creator == Address(1)

Alice == Address(2)

Bob == Address(3)

\* Txn.sender(): the admin, and an account that is first a stranger and
\* later an issuer
Senders == {Creator, Alice}

\* issuer_address arguments
IssuerArgs == {Alice, Bob}

\* "ab", "Gov"
NameArgs == {<<97, 98>>, <<71, 111, 118>>}

\* "https://ab", "ftp://abcd.."
UrlArgs == { HttpsPrefix \o <<97, 98>>,
             <<102, 116, 112, 58, 47, 47, 97, 98, 99, 100>> }

\* website_url arguments given to the Beaker registry: "https://ab"
BeakerUrlArgs == { HttpsPrefix \o <<97, 98>> }

FullNameArgs == { <<71, 82, 79>> }

OrgTypeArgs == { <<103, 111, 118>> }

JurisdictionArgs == { <<85, 83>> }

\* revoke_all_prior argument of revoke_issuer: the raw bytes of application_args[2],
\* which the method decodes with Btoi and does not compare with 0 or 1
FlagArgs == { <<0>>, <<1>>, <<2>> }

\* callers of the read-only queries
QuerySenders == {Bob}

\* credential_id arguments
CredentialArgs == { <<99, 49>> }

\* the creating call, which has no registry arguments
NoTxn == [sender |-> Creator, method |-> "create", args |-> <<>>]

\* what is remembered of the call before the last one: its two arguments,
\* its host time and its method, if it was an approved revoke_issuer or
\* revoke_credential; of an approved query_issuer of the algopy registry,
\* its argument, the string it returned and its method
Summary(tx, ok) ==
    IF ok /\ tx.method \in {"revoke_issuer", "revoke_credential"}
    THEN tx.args \o <<now, tx.method>>
    ELSE IF ok /\ program = "algopy" /\ tx.method = "query_issuer"
         THEN tx.args \o logged \o <<tx.method>>
         ELSE <<>>

(***************************************************************************)
(* Decoding of the stored records (layouts of the box values).             *)
(***************************************************************************)
authorized_at(v) == Btoi(Extract(v, 0, 8))

revoked_at(v) == Btoi(Extract(v, 8, 8))

revoke_all_prior(v) == Btoi(Extract(v, 16, 8))

vouched_by(v) == Extract(v, 24, 32)

\* the addresses that have an IssuerRecord (box under the bare address)
Issuers == {a \in IssuerArgs \cup Senders : box_has(boxes, a)}

(***************************************************************************)
(* The step of an application call: the program's verdict and writes.      *)
(***************************************************************************)
\* outcome of a call that rejected or panicked: nothing is written
Rejected == [ok |-> FALSE, boxes |-> boxes, issuer_count |-> issuer_count, log |-> <<>>]

Approved(bx, cnt, lg) == [ok |-> TRUE, boxes |-> bx, issuer_count |-> cnt, log |-> lg]

\* the ledger applies an approved call and drops a rejected one; the call
\* sees the host time t, which never runs backwards
Ledger(tx, t, r) ==
    /\ calls' = calls + 1
    /\ t >= now
    /\ now' = t
    /\ prev' = Summary(txn, approved)
    /\ txn' = tx
    /\ approved' = r.ok
    /\ logged' = r.log
    /\ boxes' = r.boxes
    /\ issuer_count' = r.issuer_count

\* a call of a registry method: the program stays, no method writes admin
Apply(tx, t, r) ==
    /\ Ledger(tx, t, r)
    /\ UNCHANGED <<program, admin>>

(***************************************************************************)
(* The PyTeal registry: app/contracts/issuer-registry.py                   *)
(***************************************************************************)
\* state left by on_create (the creating call of the application)
Init ==
    /\ program = "pyteal"
    /\ admin = Creator
    /\ issuer_count = 0
    /\ boxes = [k \in {} |-> <<>>]
    /\ now = 1
    /\ txn = NoTxn
    /\ approved = TRUE
    /\ logged = <<>>
    /\ prev = Summary(NoTxn, TRUE)
    /\ calls = 0

is_admin(sender) == sender = admin

\* is_active_issuer panics when the box is shorter than bytes 8..15
is_active_issuer_ok(address) ==
    box_has(boxes, address) => ExtractOk(boxes[address], 8, 8)

\* faulty variant: any stored record counts as active
is_active_issuer_any_record(address) == box_has(boxes, address)

is_active_issuer(address) ==
    IF box_has(boxes, address)
    THEN Btoi(Extract(boxes[address], 8, 8)) = 0
    ELSE FALSE

\* faulty variant: lower bound off by one
validate_name_min2(name) == Len(name) >= 2 /\ Len(name) <= 64

validate_name(name) == Len(name) >= 3 /\ Len(name) <= 64

\* faulty variant: upper bound off by one
validate_url_max255(url) ==
    /\ \/ Substring(url, 0, 7) = HttpPrefix
       \/ Substring(url, 0, 8) = HttpsPrefix
    /\ Len(url) >= 10
    /\ Len(url) <= 255

\* both Substring operands of the Or are evaluated, either may panic
validate_url_ok(url) == SubstringOk(url, 0, 7) /\ SubstringOk(url, 0, 8)

validate_url(url) ==
    /\ \/ Substring(url, 0, 7) = HttpPrefix
       \/ Substring(url, 0, 8) = HttpsPrefix
    /\ Len(url) >= 10
    /\ Len(url) <= 256

\* the IssuerRecord written by add_issuer
add_issuer_value(sender, t) == Itob(t) \o Itob(0) \o Itob(0) \o sender

\* the MetadataRecord written by add_issuer and update_metadata
meta_box_value(name, full_name, url, organization_type, jurisdiction, t) ==
    Itob(t) \o name \o full_name \o url \o organization_type \o jurisdiction

\* faulty variant: any sender may add an issuer
add_issuer_authorized_open(sender) == is_active_issuer_ok(sender)

\* caller may add: admin, or an active issuer (Or evaluates both operands)
add_issuer_authorized(sender) ==
    /\ is_active_issuer_ok(sender)
    /\ is_admin(sender) \/ is_active_issuer(sender)

\* faulty variant: no check that the address is new
add_issuer_asserts_no_existing(sender, issuer_address, name, url) ==
    /\ validate_name(name)
    /\ validate_url_ok(url)
    /\ validate_url(url)
    /\ add_issuer_authorized(sender)

\* the Asserts of add_issuer, in program order
add_issuer_asserts(sender, issuer_address, name, url) ==
    /\ validate_name(name)
    /\ validate_url_ok(url)
    /\ validate_url(url)
    /\ add_issuer_authorized(sender)
    /\ ~box_has(boxes, issuer_address)

\* faulty variant: the counter is not incremented
add_issuer_count_same == issuer_count

\* the issuer_count written by add_issuer
add_issuer_count == issuer_count + 1

add_issuer(sender, issuer_address, name, full_name, url, organization_type, jurisdiction, t) ==
    LET tx == [sender |-> sender, method |-> "add_issuer",
               args |-> <<issuer_address, name, full_name, url, organization_type, jurisdiction>>]
        box_key == issuer_address
        box_value == add_issuer_value(sender, t)
        meta_box_key == MetaPrefix \o issuer_address
        meta_value == meta_box_value(name, full_name, url, organization_type, jurisdiction, t)
        boxes1 == box_put(boxes, box_key, box_value)
        boxes2 == box_put(boxes1, meta_box_key, meta_value)
        ok == /\ add_issuer_asserts(sender, issuer_address, name, url)
              /\ box_put_ok(boxes, box_key, box_value)
              /\ box_put_ok(boxes1, meta_box_key, meta_value)
    IN  Apply(tx, t, IF ok THEN Approved(boxes2, add_issuer_count, <<>>) ELSE Rejected)

\* faulty variant: vouched_by is taken from the wrong offset
revoke_issuer_value_offset(existing, flag, t) ==
    Extract(existing, 0, 8) \o Itob(t) \o Itob(Btoi(flag)) \o Extract(existing, 16, 32)

\* faulty variant: the stored flag is copied instead of the argument
revoke_issuer_value_keep_flag(existing, flag, t) ==
    Extract(existing, 0, 8) \o Itob(t) \o Extract(existing, 16, 8) \o Extract(existing, 24, 32)

\* the IssuerRecord written by revoke_issuer over the existing value
revoke_issuer_value(existing, flag, t) ==
    Extract(existing, 0, 8) \o Itob(t) \o Itob(Btoi(flag)) \o Extract(existing, 24, 32)

\* faulty variant: no admin check
revoke_issuer_asserts_no_admin(sender, issuer_address) == box_has(boxes, issuer_address)

\* faulty variant: an issuer that is already revoked cannot be revoked again
revoke_issuer_asserts_active_only(sender, issuer_address) ==
    /\ is_admin(sender)
    /\ box_has(boxes, issuer_address)
    /\ revoked_at(boxes[issuer_address]) = 0

\* the Asserts of revoke_issuer
revoke_issuer_asserts(sender, issuer_address) ==
    /\ is_admin(sender)
    /\ box_has(boxes, issuer_address)

revoke_issuer(sender, issuer_address, flag, t) ==
    LET tx == [sender |-> sender, method |-> "revoke_issuer", args |-> <<issuer_address, flag>>]
        box_key == issuer_address
        ok == /\ revoke_issuer_asserts(sender, issuer_address)
              /\ ExtractOk(boxes[box_key], 0, 8)
              /\ BtoiOk(flag)
              /\ ExtractOk(boxes[box_key], 24, 32)
              /\ box_put_ok(boxes, box_key, revoke_issuer_value(boxes[box_key], flag, t))
    IN  Apply(tx, t, IF ok
                     THEN Approved(box_put(boxes, box_key, revoke_issuer_value(boxes[box_key], flag, t)),
                                   issuer_count, <<>>)
                     ELSE Rejected)

\* faulty variant: the stored flag is copied instead of being cleared
reinstate_issuer_value_keep_flag(existing, t) ==
    Itob(t) \o Itob(0) \o Extract(existing, 16, 8) \o Extract(existing, 24, 32)

\* the IssuerRecord written by reinstate_issuer over the existing value
reinstate_issuer_value(existing, t) ==
    Itob(t) \o Itob(0) \o Itob(0) \o Extract(existing, 24, 32)

\* the Asserts of reinstate_issuer
reinstate_issuer_asserts(sender, issuer_address) ==
    /\ is_admin(sender)
    /\ box_has(boxes, issuer_address)

\* faulty variant: reinstating an issuer also deletes the CredentialRecords
\* that name it
reinstate_issuer_boxes_forgive(box_key, t) ==
    LET bx == box_put(boxes, box_key, reinstate_issuer_value(boxes[box_key], t))
        kept == {k \in DOMAIN bx :
                    ~( /\ SubSeq(k, 1, 5) = CredPrefix
                       /\ SubSeq(bx[k], 9, Len(bx[k])) = box_key )}
    IN  [k \in kept |-> bx[k]]

\* the box store left by reinstate_issuer: its single box_put
reinstate_issuer_boxes(box_key, t) ==
    box_put(boxes, box_key, reinstate_issuer_value(boxes[box_key], t))

reinstate_issuer(sender, issuer_address, t) ==
    LET tx == [sender |-> sender, method |-> "reinstate_issuer", args |-> <<issuer_address>>]
        box_key == issuer_address
        ok == /\ reinstate_issuer_asserts(sender, issuer_address)
              /\ ExtractOk(boxes[box_key], 24, 32)
              /\ box_put_ok(boxes, box_key, reinstate_issuer_value(boxes[box_key], t))
    IN  Apply(tx, t, IF ok
                     THEN Approved(reinstate_issuer_boxes(box_key, t), issuer_count, <<>>)
                     ELSE Rejected)

\* the CredentialRecord written by revoke_credential
credential_value(issuer_address, t) == Itob(t) \o issuer_address

\* faulty variant: the first revocation of a credential wins
revoke_credential_asserts_once(sender) ==
    /\ is_admin(sender)
    /\ \A c \in CredentialArgs : ~box_has(boxes, CredPrefix \o c)

\* the Assert of revoke_credential
revoke_credential_asserts(sender) == is_admin(sender)

revoke_credential(sender, credential_id, issuer_address, t) ==
    LET tx == [sender |-> sender, method |-> "revoke_credential",
               args |-> <<credential_id, issuer_address>>]
        box_key == CredPrefix \o credential_id
        box_value == credential_value(issuer_address, t)
        ok == /\ revoke_credential_asserts(sender)
              /\ box_put_ok(boxes, box_key, box_value)
    IN  Apply(tx, t, IF ok
                     THEN Approved(box_put(boxes, box_key, box_value), issuer_count, <<>>)
                     ELSE Rejected)

\* the three queries log the box value, or reject when there is no box
query_box(sender, method, arg, box_key, t) ==
    LET tx == [sender |-> sender, method |-> method, args |-> <<arg>>]
    IN  Apply(tx, t, IF box_has(boxes, box_key)
                     THEN Approved(boxes, issuer_count, <<boxes[box_key]>>)
                     ELSE Rejected)

query_issuer(sender, issuer_address, t) ==
    query_box(sender, "query_issuer", issuer_address, issuer_address, t)

query_credential(sender, credential_id, t) ==
    query_box(sender, "query_credential", credential_id, CredPrefix \o credential_id, t)

query_metadata(sender, issuer_address, t) ==
    query_box(sender, "query_metadata", issuer_address, MetaPrefix \o issuer_address, t)

\* faulty variant: no check that the issuer exists
update_metadata_asserts_no_existing(sender, issuer_address, name, url) ==
    /\ is_admin(sender)
    /\ validate_name(name)
    /\ validate_url_ok(url)
    /\ validate_url(url)

\* the Asserts of update_metadata, in program order
update_metadata_asserts(sender, issuer_address, name, url) ==
    /\ is_admin(sender)
    /\ validate_name(name)
    /\ validate_url_ok(url)
    /\ validate_url(url)
    /\ box_has(boxes, issuer_address)

update_metadata(sender, issuer_address, name, full_name, url, organization_type, jurisdiction, t) ==
    LET tx == [sender |-> sender, method |-> "update_metadata",
               args |-> <<issuer_address, name, full_name, url, organization_type, jurisdiction>>]
        meta_box_key == MetaPrefix \o issuer_address
        meta_value == meta_box_value(name, full_name, url, organization_type, jurisdiction, t)
        ok == /\ update_metadata_asserts(sender, issuer_address, name, url)
              /\ box_put_ok(boxes, meta_box_key, meta_value)
    IN  Apply(tx, t, IF ok
                     THEN Approved(box_put(boxes, meta_box_key, meta_value), issuer_count, <<>>)
                     ELSE Rejected)

\* the call without arguments that carries an OnComplete action
BareTxn(sender, on_completion) == [sender |-> sender, method |-> on_completion, args |-> <<>>]

\* faulty variant: an active issuer may delete the application as well
handle_delete_any_issuer(sender, t) ==
    /\ Ledger(BareTxn(sender, "DeleteApplication"), t,
              IF is_admin(sender) \/ is_active_issuer(sender)
              THEN Approved(boxes, issuer_count, <<>>) ELSE Rejected)
    /\ program' = IF is_admin(sender) \/ is_active_issuer(sender) THEN "deleted" ELSE program
    /\ admin' = admin

\* handle_delete: the admin may delete the application, which ends the
\* registry (its boxes stay on the ledger)
handle_delete(sender, t) ==
    /\ Ledger(BareTxn(sender, "DeleteApplication"), t,
              IF is_admin(sender) THEN Approved(boxes, issuer_count, <<>>) ELSE Rejected)
    /\ program' = IF is_admin(sender) THEN "deleted" ELSE program
    /\ admin' = admin

\* handle_update: the admin may replace the program, after which the
\* application is no longer this registry
handle_update(sender, t) ==
    /\ Ledger(BareTxn(sender, "UpdateApplication"), t,
              IF is_admin(sender) THEN Approved(boxes, issuer_count, <<>>) ELSE Rejected)
    /\ program' = IF is_admin(sender) THEN "updated" ELSE program
    /\ admin' = admin

\* faulty variant: opting in repeats on_create's write of admin
handle_optin_admin_sender(sender) == sender

\* the admin global after handle_optin, which only approves
handle_optin_admin(sender) == admin

handle_optin(sender, t) ==
    /\ Ledger(BareTxn(sender, "OptIn"), t, Approved(boxes, issuer_count, <<>>))
    /\ admin' = handle_optin_admin(sender)
    /\ program' = program

handle_closeout(sender, t) ==
    /\ Ledger(BareTxn(sender, "CloseOut"), t, Approved(boxes, issuer_count, <<>>))
    /\ UNCHANGED <<program, admin>>

\* the host times a next call may see, while the application exists and
\* runs this program
Times == IF calls < MaxCalls /\ program = "pyteal" THEN now..MaxTime ELSE {}

\* the router: one application call per step
Next ==
    \/ \E s \in Senders, a \in IssuerArgs, n \in NameArgs, f \in FullNameArgs, u \in UrlArgs,
          o \in OrgTypeArgs, j \in JurisdictionArgs, t \in Times :
          add_issuer(s, a, n, f, u, o, j, t)
    \/ \E s \in Senders, a \in IssuerArgs, fl \in FlagArgs, t \in Times :
          revoke_issuer(s, a, fl, t)
    \/ \E s \in Senders, a \in IssuerArgs, t \in Times :
          reinstate_issuer(s, a, t)
    \/ \E s \in Senders, c \in CredentialArgs, a \in IssuerArgs, t \in Times :
          revoke_credential(s, c, a, t)
    \/ \E s \in Senders, a \in IssuerArgs, n \in NameArgs, f \in FullNameArgs, u \in UrlArgs,
          o \in OrgTypeArgs, j \in JurisdictionArgs, t \in Times :
          update_metadata(s, a, n, f, u, o, j, t)
    \/ \E s \in QuerySenders, a \in IssuerArgs, t \in Times :
          query_issuer(s, a, t)
    \/ \E s \in QuerySenders, c \in CredentialArgs, t \in Times :
          query_credential(s, c, t)
    \/ \E s \in QuerySenders, a \in IssuerArgs, t \in Times :
          query_metadata(s, a, t)
    \/ \E s \in Senders, t \in Times :
          handle_delete(s, t)
    \/ \E s \in Senders, t \in Times :
          handle_update(s, t)
    \/ \E s \in Senders, t \in Times :
          handle_optin(s, t)
    \/ \E s \in Senders, t \in Times :
          handle_closeout(s, t)

Spec == Init /\ [][Next]_vars

(***************************************************************************)
(* The Beaker registry: app/contracts/issuer-registry-beaker.py (the class *)
(* in algokit-project/smart_contracts/issuer_registry/contract.py has the  *)
(* same method bodies).  The methods return their ABI output in the log.   *)
(***************************************************************************)
\* declared global state: admin defaults to the creator, issuer_count to 0
InitBeaker ==
    /\ program = "beaker"
    /\ admin = Creator
    /\ issuer_count = 0
    /\ boxes = [k \in {} |-> <<>>]
    /\ now = 1
    /\ txn = NoTxn
    /\ approved = TRUE
    /\ logged = <<>>
    /\ prev = Summary(NoTxn, TRUE)
    /\ calls = 0

\* output.set(Itob(Int(1)))
BeakerSuccess == <<Itob(1)>>

beaker_add_issuer(sender, issuer_address, name, full_name, website_url, organization_type, jurisdiction, t) ==
    LET tx == [sender |-> sender, method |-> "add_issuer",
               args |-> <<issuer_address, name, full_name, website_url, organization_type, jurisdiction>>]
        box_value == Itob(t) \o Itob(0) \o Itob(0) \o sender
        meta_box_key == MetaPrefix \o issuer_address
        meta_value == Itob(t) \o name \o full_name \o website_url \o organization_type \o jurisdiction
        boxes1 == box_put(boxes, issuer_address, box_value)
        boxes2 == box_put(boxes1, meta_box_key, meta_value)
        ok == /\ sender = admin
              /\ box_put_ok(boxes, issuer_address, box_value)
              /\ box_put_ok(boxes1, meta_box_key, meta_value)
    IN  Apply(tx, t, IF ok THEN Approved(boxes2, issuer_count + 1, BeakerSuccess) ELSE Rejected)

\* faulty variant: the Beaker revoke_issuer sets the bulk-invalidation flag
beaker_revoke_issuer_value_set_flag(existing_data, t) ==
    Extract(existing_data, 0, 8) \o Itob(t) \o Itob(1)
        \o Extract(existing_data, 24, 32)

\* the IssuerRecord written by the Beaker revoke_issuer
beaker_revoke_issuer_value(existing_data, t) ==
    Extract(existing_data, 0, 8) \o Itob(t) \o Extract(existing_data, 16, 8)
        \o Extract(existing_data, 24, 32)

beaker_revoke_issuer(sender, issuer_address, t) ==
    LET tx == [sender |-> sender, method |-> "revoke_issuer", args |-> <<issuer_address>>]
        ok == /\ sender = admin
              /\ box_has(boxes, issuer_address)
              /\ ExtractOk(boxes[issuer_address], 0, 8)
              /\ ExtractOk(boxes[issuer_address], 16, 8)
              /\ ExtractOk(boxes[issuer_address], 24, 32)
              /\ box_put_ok(boxes, issuer_address, beaker_revoke_issuer_value(boxes[issuer_address], t))
    IN  Apply(tx, t, IF ok
                     THEN Approved(box_put(boxes, issuer_address,
                                           beaker_revoke_issuer_value(boxes[issuer_address], t)),
                                   issuer_count, BeakerSuccess)
                     ELSE Rejected)

\* the IssuerRecord written by the Beaker reinstate_issuer
beaker_reinstate_issuer_value(existing_data) ==
    Extract(existing_data, 0, 8) \o Itob(0) \o Extract(existing_data, 16, 8)
        \o Extract(existing_data, 24, 32)

beaker_reinstate_issuer(sender, issuer_address, t) ==
    LET tx == [sender |-> sender, method |-> "reinstate_issuer", args |-> <<issuer_address>>]
        ok == /\ sender = admin
              /\ box_has(boxes, issuer_address)
              /\ ExtractOk(boxes[issuer_address], 0, 8)
              /\ ExtractOk(boxes[issuer_address], 16, 8)
              /\ ExtractOk(boxes[issuer_address], 24, 32)
              /\ box_put_ok(boxes, issuer_address, beaker_reinstate_issuer_value(boxes[issuer_address]))
    IN  Apply(tx, t, IF ok
                     THEN Approved(box_put(boxes, issuer_address,
                                           beaker_reinstate_issuer_value(boxes[issuer_address])),
                                   issuer_count, BeakerSuccess)
                     ELSE Rejected)

beaker_revoke_credential(sender, credential_id, issuer_address, t) ==
    LET tx == [sender |-> sender, method |-> "revoke_credential",
               args |-> <<credential_id, issuer_address>>]
        box_key == CredPrefix \o credential_id
        box_value == Itob(t) \o issuer_address
        ok == /\ sender = admin
              /\ box_put_ok(boxes, box_key, box_value)
    IN  Apply(tx, t, IF ok
                     THEN Approved(box_put(boxes, box_key, box_value), issuer_count, BeakerSuccess)
                     ELSE Rejected)

\* the three Beaker queries return the box value, or empty bytes
beaker_query_box(sender, method, arg, box_key, t) ==
    LET tx == [sender |-> sender, method |-> method, args |-> <<arg>>]
    IN  Apply(tx, t, Approved(boxes, issuer_count,
                              IF box_has(boxes, box_key) THEN <<boxes[box_key]>> ELSE << <<>> >>))

beaker_query_issuer(sender, issuer_address, t) ==
    beaker_query_box(sender, "query_issuer", issuer_address, issuer_address, t)

beaker_query_credential(sender, credential_id, t) ==
    beaker_query_box(sender, "query_credential", credential_id, CredPrefix \o credential_id, t)

beaker_query_metadata(sender, issuer_address, t) ==
    beaker_query_box(sender, "query_metadata", issuer_address, MetaPrefix \o issuer_address, t)

beaker_update_metadata(sender, issuer_address, name, full_name, website_url, organization_type, jurisdiction, t) ==
    LET tx == [sender |-> sender, method |-> "update_metadata",
               args |-> <<issuer_address, name, full_name, website_url, organization_type, jurisdiction>>]
        meta_box_key == MetaPrefix \o issuer_address
        meta_value == Itob(t) \o name \o full_name \o website_url \o organization_type \o jurisdiction
        ok == /\ sender = admin
              /\ box_put_ok(boxes, meta_box_key, meta_value)
    IN  Apply(tx, t, IF ok
                     THEN Approved(box_put(boxes, meta_box_key, meta_value), issuer_count, BeakerSuccess)
                     ELSE Rejected)

\* the host times a next call may see
BeakerTimes == IF calls < MaxBeakerCalls THEN now..MaxTime ELSE {}

NextBeaker ==
    \/ \E s \in Senders, a \in IssuerArgs, n \in NameArgs, f \in FullNameArgs, u \in BeakerUrlArgs,
          o \in OrgTypeArgs, j \in JurisdictionArgs, t \in BeakerTimes :
          beaker_add_issuer(s, a, n, f, u, o, j, t)
    \/ \E s \in Senders, a \in IssuerArgs, t \in BeakerTimes :
          beaker_revoke_issuer(s, a, t)
    \/ \E s \in Senders, a \in IssuerArgs, t \in BeakerTimes :
          beaker_reinstate_issuer(s, a, t)
    \/ \E s \in Senders, c \in CredentialArgs, a \in IssuerArgs, t \in BeakerTimes :
          beaker_revoke_credential(s, c, a, t)
    \/ \E s \in Senders, a \in IssuerArgs, n \in NameArgs, f \in FullNameArgs, u \in BeakerUrlArgs,
          o \in OrgTypeArgs, j \in JurisdictionArgs, t \in BeakerTimes :
          beaker_update_metadata(s, a, n, f, u, o, j, t)
    \/ \E s \in QuerySenders, a \in IssuerArgs, t \in BeakerTimes :
          beaker_query_issuer(s, a, t)
    \/ \E s \in QuerySenders, c \in CredentialArgs, t \in BeakerTimes :
          beaker_query_credential(s, c, t)
    \/ \E s \in QuerySenders, a \in IssuerArgs, t \in BeakerTimes :
          beaker_query_metadata(s, a, t)

SpecBeaker == InitBeaker /\ [][NextBeaker]_vars

(***************************************************************************)
(* Either registry: the deployed program is one of the two.                *)
(***************************************************************************)
InitAny == Init \/ InitBeaker

NextAny ==
    \/ program = "pyteal" /\ Next
    \/ program = "beaker" /\ NextBeaker

SpecAny == InitAny /\ [][NextAny]_vars

(***************************************************************************)
(* The PyTeal registry called with arbitrary byte strings: the program     *)
(* reads Txn.application_args as they are, so an issuer_address argument   *)
(* need not be a 32-byte address.                                          *)
(***************************************************************************)
\* a 27-byte credential id
CredTail == [i \in 1..27 |-> IF i = 27 THEN 4 ELSE 0]

\* the 32-byte account address whose first bytes are "cred:"
CredAddress == CredPrefix \o CredTail

\* issuer_address arguments: an address, "meta:" followed by that address,
\* and the address that begins with "cred:"
AliasIssuerArgs == {Bob, MetaPrefix \o Bob, CredAddress}

\* credential_id arguments: "c1", and the last 27 bytes of CredAddress
AliasCredentialArgs == CredentialArgs \cup {CredTail}

\* "Gov"
AliasNameArgs == { <<71, 111, 118>> }

NextAlias ==
    \/ \E a \in AliasIssuerArgs, n \in AliasNameArgs, f \in FullNameArgs, u \in BeakerUrlArgs,
          o \in OrgTypeArgs, j \in JurisdictionArgs, t \in Times :
          add_issuer(Creator, a, n, f, u, o, j, t)
    \/ \E a \in AliasIssuerArgs, fl \in FlagArgs, t \in Times :
          revoke_issuer(Creator, a, fl, t)
    \/ \E a \in AliasIssuerArgs, t \in Times :
          reinstate_issuer(Creator, a, t)
    \/ \E c \in AliasCredentialArgs, t \in Times :
          revoke_credential(Creator, c, Bob, t)
    \/ \E a \in AliasIssuerArgs, n \in AliasNameArgs, f \in FullNameArgs, u \in BeakerUrlArgs,
          o \in OrgTypeArgs, j \in JurisdictionArgs, t \in Times :
          update_metadata(Creator, a, n, f, u, o, j, t)
    \/ \E s \in QuerySenders, a \in AliasIssuerArgs, t \in Times :
          query_issuer(s, a, t)
    \/ \E s \in QuerySenders, c \in AliasCredentialArgs, t \in Times :
          query_credential(s, c, t)
    \/ \E s \in QuerySenders, a \in AliasIssuerArgs, t \in Times :
          query_metadata(s, a, t)

SpecAlias == Init /\ [][NextAlias]_vars

(***************************************************************************)
(* The PyTeal registry called with metadata at the limits of the           *)
(* validation rules.                                                       *)
(***************************************************************************)
\* at most MaxBoundaryCalls calls carry boundary metadata
MaxBoundaryCalls == 2

\* a string of n letters "a"
Letters(n) == [i \in 1..n |-> 97]

\* names of 2, 3, 64 and 65 characters
BoundaryNameArgs == { Letters(2), Letters(3), Letters(64), Letters(65) }

\* URLs: "http://" alone and with 1, 2, 3, 249 and 250 letters (7, 8, 9,
\* 10, 256 and 257 characters), "https://" with 1 and 2 letters (9 and 10
\* characters), "http:/" (shorter than either prefix), "ftp://aaaa"
BoundaryUrlArgs ==
    { HttpPrefix, HttpPrefix \o Letters(1), HttpPrefix \o Letters(2),
      HttpPrefix \o Letters(3), HttpPrefix \o Letters(249), HttpPrefix \o Letters(250),
      HttpsPrefix \o Letters(1), HttpsPrefix \o Letters(2),
      <<104, 116, 116, 112, 58, 47>>,
      <<102, 116, 112, 58, 47, 47>> \o Letters(4) }

\* name and URL of a call: a boundary name with a valid URL, or a valid name
\* with a boundary URL
BoundaryArgs ==
    (BoundaryNameArgs \X BeakerUrlArgs) \cup (AliasNameArgs \X BoundaryUrlArgs)

BoundaryTimes == IF calls < MaxBoundaryCalls THEN now..MaxTime ELSE {}

NextBoundary ==
    \/ \E a \in IssuerArgs, m \in BoundaryArgs, f \in FullNameArgs,
          o \in OrgTypeArgs, j \in JurisdictionArgs, t \in BoundaryTimes :
          add_issuer(Creator, a, m[1], f, m[2], o, j, t)
    \/ \E a \in IssuerArgs, m \in BoundaryArgs, f \in FullNameArgs,
          o \in OrgTypeArgs, j \in JurisdictionArgs, t \in BoundaryTimes :
          update_metadata(Creator, a, m[1], f, m[2], o, j, t)

SpecBoundary == Init /\ [][NextBoundary]_vars

(***************************************************************************)
(* The algopy registry: issuer_registry/contract.py.  Only bootstrap       *)
(* writes state; every other method returns a string built from its        *)
(* arguments and touches no box and no global.                             *)
(***************************************************************************)
\* String("Added issuer: ")
AddedIssuerStr ==
    <<65, 100, 100, 101, 100, 32, 105, 115, 115, 117, 101, 114, 58, 32>>

\* String(" (")
OpenParenStr ==
    <<32, 40>>

\* String(")")
CloseParenStr ==
    <<41>>

\* String("Revoked issuer: ")
RevokedIssuerStr ==
    <<82, 101, 118, 111, 107, 101, 100, 32, 105, 115, 115, 117, 101, 114, 58,
      32>>

\* String("Reinstated issuer: ")
ReinstatedIssuerStr ==
    <<82, 101, 105, 110, 115, 116, 97, 116, 101, 100, 32, 105, 115, 115, 117,
      101, 114, 58, 32>>

\* String("Revoked credential: ")
RevokedCredentialStr ==
    <<82, 101, 118, 111, 107, 101, 100, 32, 99, 114, 101, 100, 101, 110, 116,
      105, 97, 108, 58, 32>>

\* String(" from issuer: ")
FromIssuerStr ==
    <<32, 102, 114, 111, 109, 32, 105, 115, 115, 117, 101, 114, 58, 32>>

\* String("Issuer status for: ")
IssuerStatusStr ==
    <<73, 115, 115, 117, 101, 114, 32, 115, 116, 97, 116, 117, 115, 32, 102,
      111, 114, 58, 32>>

\* String("Credential status for: ")
CredentialStatusStr ==
    <<67, 114, 101, 100, 101, 110, 116, 105, 97, 108, 32, 115, 116, 97, 116,
      117, 115, 32, 102, 111, 114, 58, 32>>

\* String("Updated metadata for: ")
UpdatedMetadataStr ==
    <<85, 112, 100, 97, 116, 101, 100, 32, 109, 101, 116, 97, 100, 97, 116,
      97, 32, 102, 111, 114, 58, 32>>

\* String("Metadata for issuer: ")
MetadataForStr ==
    <<77, 101, 116, 97, 100, 97, 116, 97, 32, 102, 111, 114, 32, 105, 115,
      115, 117, 101, 114, 58, 32>>

\* String("Total issuers: ")
TotalIssuersStr ==
    <<84, 111, 116, 97, 108, 32, 105, 115, 115, 117, 101, 114, 115, 58, 32>>

\* String(", Admin: ")
AdminStr ==
    <<44, 32, 65, 100, 109, 105, 110, 58, 32>>

\* a global that has no value yet
NoValue == <<>>

\* state after the creating call: admin and issuer_count are declared
\* without a value
InitAlgopy ==
    /\ program = "algopy"
    /\ admin = NoValue
    /\ issuer_count = 0
    /\ boxes = [k \in {} |-> <<>>]
    /\ now = 1
    /\ txn = NoTxn
    /\ approved = TRUE
    /\ logged = <<>>
    /\ prev = Summary(NoTxn, TRUE)
    /\ calls = 0

\* bootstrap has no guard: any caller, any number of times
bootstrap(sender, new_admin, t) ==
    /\ Ledger([sender |-> sender, method |-> "bootstrap", args |-> <<new_admin>>], t,
              Approved(boxes, 0, <<>>))
    /\ admin' = new_admin
    /\ program' = program

\* a method that only returns a string
algopy_return(sender, method, args, result, t) ==
    Apply([sender |-> sender, method |-> method, args |-> args], t,
          Approved(boxes, issuer_count, <<result>>))

algopy_add_issuer(sender, issuer_address, name, full_name, website_url, organization_type, jurisdiction, t) ==
    algopy_return(sender, "add_issuer",
                  <<issuer_address, name, full_name, website_url, organization_type, jurisdiction>>,
                  AddedIssuerStr \o name \o OpenParenStr \o issuer_address \o CloseParenStr, t)

algopy_revoke_issuer(sender, issuer_address, t) ==
    algopy_return(sender, "revoke_issuer", <<issuer_address>>,
                  RevokedIssuerStr \o issuer_address, t)

algopy_reinstate_issuer(sender, issuer_address, t) ==
    algopy_return(sender, "reinstate_issuer", <<issuer_address>>,
                  ReinstatedIssuerStr \o issuer_address, t)

algopy_revoke_credential(sender, credential_id, issuer_address, t) ==
    algopy_return(sender, "revoke_credential", <<credential_id, issuer_address>>,
                  RevokedCredentialStr \o credential_id \o FromIssuerStr \o issuer_address, t)

algopy_query_issuer(sender, issuer_address, t) ==
    algopy_return(sender, "query_issuer", <<issuer_address>>,
                  IssuerStatusStr \o issuer_address, t)

algopy_query_credential(sender, credential_id, t) ==
    algopy_return(sender, "query_credential", <<credential_id>>,
                  CredentialStatusStr \o credential_id, t)

algopy_update_metadata(sender, issuer_address, name, full_name, website_url, organization_type, jurisdiction, t) ==
    algopy_return(sender, "update_metadata",
                  <<issuer_address, name, full_name, website_url, organization_type, jurisdiction>>,
                  UpdatedMetadataStr \o name \o OpenParenStr \o issuer_address \o CloseParenStr, t)

algopy_query_metadata(sender, issuer_address, t) ==
    algopy_return(sender, "query_metadata", <<issuer_address>>,
                  MetadataForStr \o issuer_address, t)

\* get_stats reads both globals, which fails while they have no value; the
\* counter is written as its 8-byte encoding
get_stats(sender, t) ==
    Apply([sender |-> sender, method |-> "get_stats", args |-> <<>>], t,
          IF admin = NoValue
          THEN Rejected
          ELSE Approved(boxes, issuer_count,
                        <<TotalIssuersStr \o Itob(issuer_count) \o AdminStr \o admin>>))

\* the host times a next call may see
AlgopyTimes == IF calls < MaxCalls THEN now..MaxTime ELSE {}

\* issuer_address arguments given to the algopy registry
AlgopyIssuerArgs == {Bob}

NextAlgopy ==
    \/ \E s \in Senders, a \in Senders, t \in AlgopyTimes :
          bootstrap(s, a, t)
    \/ \E s \in Senders, a \in AlgopyIssuerArgs, n \in AliasNameArgs, f \in FullNameArgs,
          u \in BeakerUrlArgs, o \in OrgTypeArgs, j \in JurisdictionArgs, t \in AlgopyTimes :
          algopy_add_issuer(s, a, n, f, u, o, j, t)
    \/ \E s \in Senders, a \in AlgopyIssuerArgs, t \in AlgopyTimes :
          algopy_revoke_issuer(s, a, t)
    \/ \E s \in Senders, a \in AlgopyIssuerArgs, t \in AlgopyTimes :
          algopy_reinstate_issuer(s, a, t)
    \/ \E s \in Senders, c \in CredentialArgs, a \in AlgopyIssuerArgs, t \in AlgopyTimes :
          algopy_revoke_credential(s, c, a, t)
    \/ \E s \in QuerySenders, a \in AlgopyIssuerArgs, t \in AlgopyTimes :
          algopy_query_issuer(s, a, t)
    \/ \E s \in QuerySenders, c \in CredentialArgs, t \in AlgopyTimes :
          algopy_query_credential(s, c, t)
    \/ \E s \in Senders, a \in AlgopyIssuerArgs, n \in AliasNameArgs, f \in FullNameArgs,
          u \in BeakerUrlArgs, o \in OrgTypeArgs, j \in JurisdictionArgs, t \in AlgopyTimes :
          algopy_update_metadata(s, a, n, f, u, o, j, t)
    \/ \E s \in QuerySenders, a \in AlgopyIssuerArgs, t \in AlgopyTimes :
          algopy_query_metadata(s, a, t)
    \/ \E s \in QuerySenders, t \in AlgopyTimes :
          get_stats(s, t)

SpecAlgopy == InitAlgopy /\ [][NextAlgopy]_vars

(***************************************************************************)
(* Properties of the registries.                                           *)
(***************************************************************************)
\* the first argument of the last call (issuer address or credential id)
Target == txn.args[1]

\* the call before the last one was an approved revoke_issuer of Target
JustRevoked == prev # <<>> /\ prev[4] = "revoke_issuer" /\ prev[1] = Target

\* the last call carried metadata that passes both validation rules
ValidMetadata(tx) ==
    /\ validate_name(tx.args[2])
    /\ validate_url_ok(tx.args[4])
    /\ validate_url(tx.args[4])

\* C1: in the PyTeal registry every IssuerRecord has revoked_at = 0 or
\* revoked_at > authorized_at, in every reachable state.
C1_RevokedAfterAuthorized ==
    program = "pyteal" =>
        \A a \in Issuers :
            \/ revoked_at(boxes[a]) = 0
            \/ revoked_at(boxes[a]) > authorized_at(boxes[a])

\* C2: in the PyTeal registry a revoke_issuer, reinstate_issuer,
\* update_metadata or revoke_credential call by a caller other than the admin
\* is rejected, and every box and issuer_count are as before the call.
C2_NonAdminRejected ==
    [][ ( /\ txn'.method \in {"revoke_issuer", "reinstate_issuer",
                              "update_metadata", "revoke_credential"}
          /\ txn'.sender # admin )
        => ( /\ ~approved'
             /\ boxes' = boxes
             /\ issuer_count' = issuer_count
             /\ admin' = admin ) ]_vars

\* an active issuer who is not the admin tried to revoke an existing issuer
C2_Witness ==
    /\ txn.method = "revoke_issuer"
    /\ txn.sender # admin
    /\ is_active_issuer(txn.sender)
    /\ box_has(boxes, Target)
    /\ ~approved

C4_AddExistingRejected ==
    [][ ( txn'.method = "add_issuer" /\ box_has(boxes, txn'.args[1]) )
        => ( /\ ~approved'
             /\ boxes' = boxes
             /\ issuer_count' = issuer_count ) ]_vars

\* the admin called add_issuer with valid metadata for a revoked issuer
C4_Witness ==
    /\ txn.method = "add_issuer"
    /\ txn.sender = admin
    /\ ValidMetadata(txn)
    /\ box_has(boxes, Target)
    /\ revoked_at(boxes[Target]) # 0
    /\ ~approved

\* C5: in the Beaker registries add_issuer by the admin for an address that
\* already has an IssuerRecord is rejected and leaves every box and
\* issuer_count unchanged.
C5_BeakerAddExistingRejected ==
    [][ ( /\ txn'.method = "add_issuer"
          /\ txn'.sender = admin
          /\ box_has(boxes, txn'.args[1]) )
        => ( /\ ~approved'
             /\ boxes' = boxes
             /\ issuer_count' = issuer_count ) ]_vars

\* C6: in both registries an approved revoke_issuer or reinstate_issuer
\* leaves vouched_by of the record as it was; a record only appears by an
\* approved add_issuer for its address, with vouched_by the caller of that
\* add_issuer, and no later call changes the vouched_by of a stored record.
C6_VouchedByImmutable ==
    [][ /\ ( txn'.method \in {"revoke_issuer", "reinstate_issuer"} /\ approved' )
            => vouched_by(boxes'[txn'.args[1]]) = vouched_by(boxes[txn'.args[1]])
        /\ \A a \in IssuerArgs :
              /\ ( box_has(boxes, a) /\ box_has(boxes', a) )
                    => vouched_by(boxes'[a]) = vouched_by(boxes[a])
              /\ ( ~box_has(boxes, a) /\ box_has(boxes', a) )
                    => ( /\ txn'.method = "add_issuer"
                         /\ txn'.args[1] = a
                         /\ approved'
                         /\ vouched_by(boxes'[a]) = txn'.sender ) ]_vars

\* an issuer vouched for by another issuer has just been revoked or reinstated
C6_Witness ==
    /\ txn.method \in {"revoke_issuer", "reinstate_issuer"}
    /\ approved
    /\ vouched_by(boxes[Target]) # admin

\* C7: in the PyTeal registry an approved add_issuer increases issuer_count
\* by exactly 1 and every other call, approved or rejected, leaves it
\* unchanged; issuer_count never decreases.
C7_IssuerCountSteps ==
    [][ program = "pyteal" =>
          /\ issuer_count' = IF txn'.method = "add_issuer" /\ approved'
                             THEN issuer_count + 1
                             ELSE issuer_count
          /\ issuer_count' >= issuer_count ]_vars

\* two issuers were added and one of them has just been revoked
C7_Witness ==
    /\ program = "pyteal"
    /\ issuer_count = 2
    /\ txn.method = "revoke_issuer"
    /\ approved

\* C8: in the PyTeal registry an approved revoke_issuer(address, flag) at
\* host time now leaves the record with revoked_at = now, revoke_all_prior
\* = flag and authorized_at and vouched_by as before; query_issuer of an
\* existing record is approved and logs exactly the stored record.
C8_RevokeIssuerEffect ==
    [][ /\ ( txn'.method = "revoke_issuer" /\ approved' )
            => LET old == boxes[txn'.args[1]]
                   new == boxes'[txn'.args[1]]
               IN  /\ revoked_at(new) = now'
                   /\ revoke_all_prior(new) = Btoi(txn'.args[2])
                   /\ authorized_at(new) = authorized_at(old)
                   /\ vouched_by(new) = vouched_by(old)
                   /\ Len(new) = 56
        /\ ( txn'.method = "query_issuer" /\ box_has(boxes, txn'.args[1]) )
            => ( /\ approved'
                 /\ logged' = <<boxes[txn'.args[1]]>>
                 /\ boxes' = boxes ) ]_vars

\* query_issuer right after revoke_issuer(address, true) returned the record
\* with revoked_at = now and revoke_all_prior = 1
C8_Witness ==
    /\ txn.method = "query_issuer"
    /\ approved
    /\ JustRevoked
    /\ prev[2] = <<1>>
    /\ revoke_all_prior(logged[1]) = 1
    /\ revoked_at(logged[1]) = now
    /\ authorized_at(logged[1]) < now

\* C9: in both registries an approved revoke_issuer followed immediately by
\* an approved reinstate_issuer of the same address leaves the record with
\* revoked_at = 0 and revoke_all_prior = 0.
C9_RevokeThenReinstate ==
    [][ ( /\ txn.method = "revoke_issuer"
          /\ approved
          /\ txn'.method = "reinstate_issuer"
          /\ approved'
          /\ txn'.args[1] = txn.args[1] )
        => ( /\ revoked_at(boxes'[txn'.args[1]]) = 0
             /\ revoke_all_prior(boxes'[txn'.args[1]]) = 0 ) ]_vars

\* an issuer revoked with revoke_all_prior = true has just been reinstated
C9_Witness ==
    /\ program = "pyteal"
    /\ txn.method = "reinstate_issuer"
    /\ approved
    /\ JustRevoked
    /\ prev[2] = <<1>>
    /\ revoked_at(boxes[Target]) = 0
    /\ revoke_all_prior(boxes[Target]) = 0

\* C10: in the PyTeal registry add_issuer and update_metadata whose name has
\* a length outside 3..64 or whose URL fails the URL rule are rejected for
\* every caller and leave every box and issuer_count unchanged.
C10_InvalidMetadataRejected ==
    [][ ( /\ txn'.method \in {"add_issuer", "update_metadata"}
          /\ \/ Len(txn'.args[2]) < 3
             \/ Len(txn'.args[2]) > 64
             \/ Len(txn'.args[4]) < 10
             \/ Len(txn'.args[4]) > 256
             \/ /\ SubSeq(txn'.args[4], 1, 7) # HttpPrefix
                /\ SubSeq(txn'.args[4], 1, 8) # HttpsPrefix )
        => ( /\ ~approved'
             /\ boxes' = boxes
             /\ issuer_count' = issuer_count ) ]_vars

\* the admin called add_issuer for a new address with a 2-character name
C10_Witness ==
    /\ txn.method = "add_issuer"
    /\ txn.sender = admin
    /\ Len(txn.args[2]) = 2
    /\ ~box_has(boxes, Target)
    /\ ~box_has(boxes, MetaPrefix \o Target)
    /\ issuer_count = 0
    /\ ~approved

\* C11: in the Beaker registries add_issuer and update_metadata called by
\* the admin with a name of length outside 3..64, or a URL of length outside
\* 10..256 or without the http:// or https:// prefix, are rejected and leave
\* every box and issuer_count unchanged.
C11_BeakerInvalidMetadataRejected ==
    [][ ( /\ program = "beaker"
          /\ txn'.method \in {"add_issuer", "update_metadata"}
          /\ txn'.sender = admin
          /\ ~ValidMetadata(txn') )
        => ( /\ ~approved'
             /\ boxes' = boxes
             /\ issuer_count' = issuer_count ) ]_vars

\* the three read-only calls
Queries == {"query_issuer", "query_credential", "query_metadata"}

\* the box a query reads
QueryKey(tx) ==
    IF tx.method = "query_issuer" THEN tx.args[1]
    ELSE IF tx.method = "query_credential" THEN CredPrefix \o tx.args[1]
    ELSE MetaPrefix \o tx.args[1]

\* C12: in the PyTeal registry as in the Beaker registries a query_issuer,
\* query_credential or query_metadata call is always approved: for a present
\* key it returns the stored record, for an absent key it completes with an
\* empty result, and it writes nothing.
C12_QueriesNeverFail ==
    [][ txn'.method \in Queries
        => ( /\ approved'
             /\ boxes' = boxes
             /\ IF box_has(boxes, QueryKey(txn'))
                THEN logged' = <<boxes[QueryKey(txn')]>>
                ELSE logged' \in {<<>>, << <<>> >>} ) ]_vars

\* C13: in the PyTeal registry revoke_issuer, reinstate_issuer and
\* update_metadata called by the admin for an address without an
\* IssuerRecord are rejected and leave every box and issuer_count unchanged
\* (no IssuerRecord and no MetadataRecord appears for the address).
C13_AbsentIssuerRejected ==
    [][ ( /\ txn'.method \in {"revoke_issuer", "reinstate_issuer", "update_metadata"}
          /\ txn'.sender = admin
          /\ ~box_has(boxes, txn'.args[1]) )
        => ( /\ ~approved'
             /\ boxes' = boxes
             /\ issuer_count' = issuer_count
             /\ ~box_has(boxes', txn'.args[1])
             /\ ~box_has(boxes', MetaPrefix \o txn'.args[1]) ) ]_vars

\* the admin called update_metadata with valid metadata for an address that
\* was never added, while another issuer exists
C13_Witness ==
    /\ txn.method = "update_metadata"
    /\ txn.sender = admin
    /\ ValidMetadata(txn)
    /\ ~box_has(boxes, Target)
    /\ ~box_has(boxes, MetaPrefix \o Target)
    /\ Issuers # {}
    /\ ~approved

\* C14: in the Beaker registries a MetadataRecord exists for an address only
\* if an IssuerRecord exists for it, in every reachable state (update_metadata
\* for an address without an IssuerRecord creates no MetadataRecord).
C14_BeakerMetadataOnlyForIssuers ==
    program = "beaker" =>
        \A a \in IssuerArgs :
            box_has(boxes, MetaPrefix \o a) => box_has(boxes, a)

\* the CredentialRecord layout: revoked_at (8 bytes), issuer_address
credential_revoked_at(v) == Btoi(Extract(v, 0, 8))

credential_issuer(v) == Extract(v, 8, Len(v) - 8)

\* the credential ids that have a CredentialRecord
Credentials == {c \in CredentialArgs : box_has(boxes, CredPrefix \o c)}

\* C15: in both registries a CredentialRecord that exists before a call
\* exists after it, whatever the call; an approved reinstate_issuer leaves
\* every CredentialRecord exactly as it was.
C15_CredentialRevocationTerminal ==
    [][ \A c \in Credentials :
          /\ box_has(boxes', CredPrefix \o c)
          /\ txn'.method = "reinstate_issuer"
                => boxes'[CredPrefix \o c] = boxes[CredPrefix \o c] ]_vars

\* the issuer named in a CredentialRecord has just been reinstated and the
\* record is still there
C15_Witness ==
    /\ txn.method = "reinstate_issuer"
    /\ approved
    /\ \E c \in Credentials : credential_issuer(boxes[CredPrefix \o c]) = Target

\* C16: in the PyTeal registry revoke_credential(id, X) by the admin at host
\* time now is approved, also when a CredentialRecord for id exists, and
\* leaves the record with revoked_at = now and issuer_address = X (the whole
\* record is replaced); query_credential of an existing record is approved
\* and returns exactly the stored record.
C16_CredentialOverwrite ==
    [][ /\ ( txn'.method = "revoke_credential" /\ txn'.sender = admin )
            => LET new == boxes'[CredPrefix \o txn'.args[1]]
               IN  /\ approved'
                   /\ credential_revoked_at(new) = now'
                   /\ credential_issuer(new) = txn'.args[2]
                   /\ new = Itob(now') \o txn'.args[2]
        /\ ( txn'.method = "query_credential"
             /\ box_has(boxes, CredPrefix \o txn'.args[1]) )
            => ( /\ approved'
                 /\ logged' = <<boxes[CredPrefix \o txn'.args[1]]>> ) ]_vars

\* a credential revoked for one issuer at an earlier time has just been
\* revoked again for another issuer, and the record holds the second call
C16_Witness ==
    /\ txn.method = "revoke_credential"
    /\ approved
    /\ prev # <<>>
    /\ prev[4] = "revoke_credential"
    /\ prev[1] = Target
    /\ prev[2] # txn.args[2]
    /\ prev[3] < now
    /\ credential_revoked_at(boxes[CredPrefix \o Target]) = now
    /\ credential_issuer(boxes[CredPrefix \o Target]) = txn.args[2]

\* the 32-byte account addresses of the model
Addresses == {Creator, Alice, Bob}

\* C17: in the PyTeal registry, after every call an address has an
\* IssuerRecord if and only if it has a MetadataRecord, and a record of
\* either kind that existed before the call still exists after it.
C17_IssuerIffMetadata ==
    [][ \A a \in Addresses :
          /\ box_has(boxes', a) <=> box_has(boxes', MetaPrefix \o a)
          /\ box_has(boxes, a) => box_has(boxes', a)
          /\ box_has(boxes, MetaPrefix \o a) => box_has(boxes', MetaPrefix \o a) ]_vars

\* C18: in the PyTeal registry admin is the creating caller after creation,
\* and no call, by any caller and whether approved or rejected, changes it.
C18_AdminImmutable ==
    [][ /\ admin = Creator
        /\ admin' = admin ]_vars

\* a caller other than the admin has just had a call approved, and admin is
\* still the creator
C18_Witness ==
    /\ txn.method \in {"add_issuer", "OptIn", "CloseOut"}
    /\ txn.sender # Creator
    /\ approved
    /\ admin = Creator

\* C19: in the algopy registry, once admin has a value no call by any caller,
\* a further bootstrap included, changes it, and no call decreases
\* issuer_count.
C19_AlgopyAdminSetOnce ==
    [][ /\ admin # NoValue => admin' = admin
        /\ issuer_count' >= issuer_count ]_vars

\* issue times and evaluation times a verifier may ask about
IssueTimes == 0 .. MaxTime

EvalTimes == 0 .. MaxTime + 1

\* credential ids a verifier may ask about: one that can have a
\* CredentialRecord ("c1") and one that never has ("c2")
VerifiedCredentials == CredentialArgs \cup { <<99, 50>> }

\* the derived verification rule: a credential of issuer I with id c, issued
\* at time T, is trusted at evaluation time E
Trusted(I, T, E, c) ==
    /\ box_has(boxes, I)
    /\ authorized_at(boxes[I]) <= T
    /\ \/ revoked_at(boxes[I]) = 0
       \/ E < revoked_at(boxes[I])
    /\ ~( revoke_all_prior(boxes[I]) # 0 /\ T < revoked_at(boxes[I]) )
    /\ ~box_has(boxes, CredPrefix \o c)

\* what the rule must say of the credentials of X after revoke_issuer(X, flag)
\* at time T2
RevokedVerdicts(X, T2, flag) ==
    IF flag
    THEN \A T \in IssueTimes, E \in EvalTimes, c \in VerifiedCredentials :
            T < T2 => ~Trusted(X, T, E, c)
    ELSE \A T \in IssueTimes, E \in EvalTimes, c \in VerifiedCredentials :
            ( /\ authorized_at(boxes[X]) <= T
              /\ T < T2
              /\ ~box_has(boxes, CredPrefix \o c) )
            => ( Trusted(X, T, E, c) <=> E < T2 )

\* C20: in the PyTeal registry, right after an approved revoke_issuer(X, flag)
\* at time T2, and after one more call that is not an approved
\* reinstate_issuer(X), the rule gives: with flag true every credential of X
\* issued before T2 is untrusted at every evaluation time, with or without
\* a CredentialRecord; with flag false a credential without CredentialRecord
\* issued at T, authorized_at <= T < T2, is trusted exactly at the
\* evaluation times before T2.
C20_RevokedIssuerVerdicts ==
    \A X \in IssuerArgs :
        /\ ( /\ txn.method = "revoke_issuer"
              /\ approved
              /\ txn.args[1] = X )
            => RevokedVerdicts(X, now, Btoi(txn.args[2]) # 0)
        /\ ( /\ prev # <<>>
              /\ prev[4] = "revoke_issuer"
              /\ prev[1] = X
              /\ ~( /\ txn.method = "reinstate_issuer"
                    /\ approved
                    /\ txn.args[1] = X ) )
            => RevokedVerdicts(X, prev[3], Btoi(prev[2]) # 0)

\* C21: in the PyTeal registry, when an approved revoke_issuer(X, false) is
\* followed by an approved reinstate_issuer(X), a credential of X without
\* CredentialRecord that was issued at T, with authorized_at <= T < revoked_at
\* of the record before the reinstatement, is trusted under the rule at every
\* evaluation time from the reinstatement on.
C21_ReinstateRestoresTrust ==
    [][ \A X \in IssuerArgs :
          ( /\ txn.method = "revoke_issuer"
            /\ approved
            /\ txn.args[1] = X
            /\ Btoi(txn.args[2]) = 0
            /\ txn'.method = "reinstate_issuer"
            /\ approved'
            /\ txn'.args[1] = X )
          => \A T \in IssueTimes, E \in EvalTimes, c \in VerifiedCredentials :
                ( /\ authorized_at(boxes[X]) <= T
                  /\ T < revoked_at(boxes[X])
                  /\ E >= now'
                  /\ ~box_has(boxes', CredPrefix \o c) )
                => Trusted(X, T, E, c)' ]_vars

\* the 32-byte account addresses of the model, with the one beginning "cred:"
AliasAddresses == Addresses \cup {CredAddress}

\* the box under key k is the same before and after the call
SameBox(k) ==
    /\ box_has(boxes', k) <=> box_has(boxes, k)
    /\ box_has(boxes, k) => boxes'[k] = boxes[k]

\* C22: in the PyTeal registry an add_issuer, revoke_issuer, reinstate_issuer
\* or update_metadata call for address A leaves the IssuerRecord and the
\* MetadataRecord of every other address and every CredentialRecord as they
\* were (no cascade to the issuers A vouched for), and a revoke_credential
\* call leaves every IssuerRecord and MetadataRecord as it was.
C22_FrameOfMutations ==
    [][ /\ txn'.method \in {"add_issuer", "revoke_issuer", "reinstate_issuer", "update_metadata"}
            => /\ \A B \in AliasAddresses \ {txn'.args[1]} :
                     SameBox(B) /\ SameBox(MetaPrefix \o B)
               /\ \A c \in AliasCredentialArgs : SameBox(CredPrefix \o c)
        /\ txn'.method = "revoke_credential"
            => \A B \in AliasAddresses :
                  SameBox(B) /\ SameBox(MetaPrefix \o B) ]_vars

\* the name rule: 3 to 64 characters
NameRule(name) == Len(name) \in 3..64

\* the URL rule: begins with "http://" or "https://", 10 to 256 characters
UrlRule(url) ==
    /\ \/ Len(url) >= 7 /\ SubSeq(url, 1, 7) = HttpPrefix
       \/ Len(url) >= 8 /\ SubSeq(url, 1, 8) = HttpsPrefix
    /\ Len(url) \in 10..256

\* C23: in the PyTeal registry add_issuer by the admin for a new address is
\* approved exactly when the name has 3 to 64 characters and the URL begins
\* with "http://" or "https://" and has 10 to 256 characters (a URL shorter
\* than the prefix is rejected); update_metadata is approved only for
\* metadata that passes both rules.
C23_ValidationBoundaries ==
    [][ /\ ( /\ txn'.method = "add_issuer"
              /\ txn'.sender = admin
              /\ ~box_has(boxes, txn'.args[1])
              /\ ~box_has(boxes, MetaPrefix \o txn'.args[1]) )
            => ( approved' <=> NameRule(txn'.args[2]) /\ UrlRule(txn'.args[4]) )
        /\ ( txn'.method = "update_metadata" /\ approved' )
            => ( NameRule(txn'.args[2]) /\ UrlRule(txn'.args[4]) ) ]_vars

\* issuers with a 64-character name and with a 256-character URL were added
C23_Witness ==
    /\ txn.method = "add_issuer"
    /\ approved
    /\ Len(txn.args[4]) = 256
    /\ issuer_count = 2
    /\ \E a \in Issuers : Len(boxes[MetaPrefix \o a]) = 8 + 64 + 3 + 10 + 3 + 2

\* the box key a call uses for its own record
RecordKey(tx) ==
    IF tx.method \in {"add_issuer", "revoke_issuer", "reinstate_issuer", "query_issuer"}
    THEN tx.args[1]
    ELSE IF tx.method \in {"revoke_credential", "query_credential"}
    THEN CredPrefix \o tx.args[1]
    ELSE MetaPrefix \o tx.args[1]

\* the record kind a method works on
RecordKind(method) ==
    IF method \in {"add_issuer", "revoke_issuer", "reinstate_issuer", "query_issuer"}
    THEN "issuer"
    ELSE IF method \in {"revoke_credential", "query_credential"}
    THEN "credential"
    ELSE "metadata"

\* the call reaches the box_get of its issuer box: the Asserts before it pass
ReadsIssuerBox(tx) ==
    /\ tx.method \in {"add_issuer", "revoke_issuer", "reinstate_issuer"}
    /\ tx.sender = admin
    /\ tx.method = "add_issuer" => ValidMetadata(tx)

\* C24: in the PyTeal registry the key of a record that an approved
\* add_issuer or revoke_credential has just written is not the key that the
\* next call uses for a record of another kind: neither query_credential nor
\* query_metadata returns the IssuerRecord just added, no approved
\* revoke_credential or update_metadata writes over it, and no add_issuer,
\* revoke_issuer or reinstate_issuer reads or writes the key of the
\* CredentialRecord just written.
C24_KeySpacesDisjoint ==
    [][ ( /\ txn.method \in {"add_issuer", "revoke_credential"}
          /\ approved
          /\ txn'.method \in {"add_issuer", "revoke_issuer", "reinstate_issuer",
                               "revoke_credential", "update_metadata",
                               "query_issuer", "query_credential", "query_metadata"}
          /\ RecordKind(txn'.method) # RecordKind(txn.method)
          /\ approved' \/ ReadsIssuerBox(txn') )
        => RecordKey(txn') # RecordKey(txn) ]_vars

\* C25: in the PyTeal registry the stored revoke_all_prior of every IssuerRecord
\* is 0 or 1 in every reachable state, whatever argument an admin passes to
\* revoke_issuer.
C25_FlagIsBoolean ==
    program = "pyteal" =>
        \A a \in Issuers : revoke_all_prior(boxes[a]) \in {0, 1}

\* C26: in the PyTeal registry issuer_count equals, in every reachable state,
\* the number of addresses that have an IssuerRecord, i.e. the addresses under
\* whose bare bytes a box is stored (the test add_issuer and query_issuer make).
C26_CountMatchesRecords ==
    program = "pyteal" =>
        issuer_count = Cardinality({a \in AliasAddresses : box_has(boxes, a)})

\* C27: in the PyTeal registry the vouched_by of every IssuerRecord is, in
\* every reachable state, the admin address or an address that itself has an
\* IssuerRecord (which may since have been revoked).
C27_VouchersAreKnown ==
    \A a \in Issuers :
        \/ vouched_by(boxes[a]) = admin
        \/ box_has(boxes, vouched_by(boxes[a]))

\* an issuer vouched for by a non-admin issuer that has since been revoked
C27_Witness ==
    \E a \in Issuers :
        /\ vouched_by(boxes[a]) # admin
        /\ box_has(boxes, vouched_by(boxes[a]))
        /\ revoked_at(boxes[vouched_by(boxes[a])]) # 0

\* C28: in the PyTeal registry an admin revoke_issuer of an issuer that is
\* already revoked is approved and replaces revoked_at with the current time
\* and revoke_all_prior with the new argument; with a non-decreasing clock
\* revoked_at does not decrease from one revoke_issuer to the next while no
\* reinstate_issuer intervenes, and an approved revoke_issuer at a positive
\* timestamp leaves the issuer not active (revoked_at # 0).
C28_RevokeAgain ==
    [][ \A a \in IssuerArgs :
          ( program = "pyteal" /\ txn'.method = "revoke_issuer" /\ txn'.args[1] = a )
          =>   /\ ( /\ is_admin(txn'.sender)
                    /\ box_has(boxes, a)
                    /\ revoked_at(boxes[a]) # 0 )
                  => ( /\ approved'
                       /\ revoked_at(boxes'[a]) = now'
                       /\ revoke_all_prior(boxes'[a]) = Btoi(txn'.args[2])
                       /\ revoked_at(boxes'[a]) >= revoked_at(boxes[a]) )
               /\ ( approved' /\ now' > 0 )
                  => ( /\ revoked_at(boxes'[a]) # 0
                       /\ ~is_active_issuer(a)' ) ]_vars

\* an issuer revoked with one flag has just been revoked again, later and
\* with another flag
C28_Witness ==
    /\ txn.method = "revoke_issuer"
    /\ approved
    /\ prev # <<>>
    /\ prev[4] = "revoke_issuer"
    /\ prev[1] = txn.args[1]
    /\ prev[2] # txn.args[2]
    /\ prev[3] < now
    /\ revoked_at(boxes[txn.args[1]]) = now
    /\ revoke_all_prior(boxes[txn.args[1]]) = Btoi(txn.args[2])

\* C29: in the Beaker variants every IssuerRecord has revoke_all_prior = 0 in
\* every reachable state: add_issuer writes 0, revoke_issuer and
\* reinstate_issuer copy the stored value.
C29_BeakerFlagNeverSet ==
    program = "beaker" =>
        \A a \in Issuers : revoke_all_prior(boxes[a]) = 0

\* a Beaker issuer has been revoked and then reinstated
C29_Witness ==
    /\ program = "beaker"
    /\ txn.method = "reinstate_issuer"
    /\ approved
    /\ prev # <<>>
    /\ prev[Len(prev)] = "revoke_issuer"
    /\ prev[1] = txn.args[1]
    /\ revoked_at(boxes[txn.args[1]]) = 0
    /\ revoke_all_prior(boxes[txn.args[1]]) = 0

\* C30: in the PyTeal router a DeleteApplication or UpdateApplication call is
\* approved exactly when the sender is the admin; from every other sender,
\* active issuers included, it is rejected and changes nothing, so the
\* registry is torn down or replaced only by the admin.
C30_OnlyAdminDeletesOrUpdates ==
    [][ /\ txn'.method \in {"DeleteApplication", "UpdateApplication"}
            => /\ approved' <=> txn'.sender = admin
               /\ ~approved' => /\ program' = program
                                /\ boxes' = boxes
                                /\ issuer_count' = issuer_count
        /\ program' # program
            => /\ txn'.method \in {"DeleteApplication", "UpdateApplication"}
               /\ txn'.sender = admin
               /\ approved' ]_vars

\* an active issuer that is not the admin has just been refused a
\* DeleteApplication or UpdateApplication call
C30_Witness ==
    /\ program = "pyteal"
    /\ txn.method \in {"DeleteApplication", "UpdateApplication"}
    /\ txn.sender # admin
    /\ is_active_issuer(txn.sender)
    /\ ~approved

\* C31: in the algopy registry query_issuer reflects the registry state: the
\* result of query_issuer(X) after a revoke_issuer(X) reports X as revoked and
\* differs from the result query_issuer(X) returned before the revocation
\* (for a never-added X, "not found").  Stated for the calls query_issuer(X),
\* revoke_issuer(X), query_issuer(X) made one after the other.
C31_QueryReflectsRevocation ==
    [][ ( /\ program = "algopy"
          /\ prev # <<>>
          /\ prev[Len(prev)] = "query_issuer"
          /\ txn.method = "revoke_issuer"
          /\ approved
          /\ txn.args[1] = prev[1]
          /\ txn'.method = "query_issuer"
          /\ approved'
          /\ txn'.args[1] = prev[1] )
        => logged' # <<prev[2]>> ]_vars

====
